---- MODULE Spec2Model ----
(***************************************************************************)
(* Model of the multi-analyzer analysis engine of pr_review_agent:         *)
(* analyzers/base.py (AnalysisResult, AnalysisSummary, CodeAnalyzerBase,   *)
(* AnalysisEngine) with the failure handling of the two concrete           *)
(* analyzers (security_analyzer.py, structure_analyzer.py).                *)
(*                                                                         *)
(* Numbers: a confidence and a severity weight are kept in tenths          *)
(* (0.5 -> 5), a penalty in hundredths, a score in thousandths             *)
(* (1.0 -> 1000), so that the arithmetic of _calculate_score is exact.     *)
(* Strings that the code inspects (paths, extensions) are sequences of     *)
(* one-character strings.                                                  *)
(*                                                                         *)
(* Five specifications: Spec (one analyze_files call), SpecScore           *)
(* (_aggregate_results over any list of findings), SpecAnalyzers (the two  *)
(* concrete analyzers over a catalogue of Python texts), SpecList          *)
(* (add_analyzer and remove_analyzer before a call) and SpecOrder (the     *)
(* order in which the tasks of a call finish, with the scheduling of the   *)
(* event loop as fairness).                                                *)
(***************************************************************************)
EXTENDS Integers, Sequences, FiniteSets, TLC

VARIABLES analyzers, files, pc, tasks, calls, all_results, summary, ops

vars == <<analyzers, files, pc, tasks, calls, all_results, summary, ops>>

(***************************************************************************)
(* Bounds of the model.                                                    *)
(***************************************************************************)
MaxFiles == 2

MaxAnalyzers == 2

MaxResults == 2

(***************************************************************************)
(* Generic helpers.                                                        *)
(***************************************************************************)
RECURSIVE Flatten(_)
Flatten(ss) == IF ss = <<>> THEN <<>> ELSE Head(ss) \o Flatten(Tail(ss))

RECURSIVE SumSeq(_)
SumSeq(s) == IF s = <<>> THEN 0 ELSE Head(s) + SumSeq(Tail(s))

RECURSIVE SumOver(_, _)
SumOver(S, f) ==
    IF S = {} THEN 0
    ELSE LET x == CHOOSE y \in S : TRUE IN f[x] + SumOver(S \ {x}, f)

Min(a, b) == IF a <= b THEN a ELSE b

Max(a, b) == IF a >= b THEN a ELSE b

SeqsUpTo(S, n) == UNION {[1..k -> S] : k \in 0..n}

(***************************************************************************)
(* pathlib.Path(file_path).suffix.lower(), as is_supported computes it.    *)
(***************************************************************************)
LowerChar(c) ==
    CASE c = "A" -> "a"
      [] c = "B" -> "b"
      [] c = "P" -> "p"
      [] c = "Y" -> "y"
      [] c = "J" -> "j"
      [] c = "S" -> "s"
      [] OTHER -> c

Lower(s) == [k \in 1..Len(s) |-> LowerChar(s[k])]

\* the last path component: what follows the last "/"
PathName(p) ==
    LET slashes == {k \in 1..Len(p) : p[k] = "/"}
        last == IF slashes = {} THEN 0 ELSE CHOOSE k \in slashes : \A j \in slashes : j <= k
    IN SubSeq(p, last + 1, Len(p))

\* name[i:] for i = name.rfind('.') when 0 < i < len(name) - 1 (0-based), else ''
PathSuffix(p) ==
    LET name == PathName(p)
        dots == {k \in 1..Len(name) : name[k] = "."}
        i == IF dots = {} THEN 0 ELSE CHOOSE k \in dots : \A j \in dots : j <= k
    IN IF i > 1 /\ i < Len(name) THEN SubSeq(name, i, Len(name)) ELSE <<>>

(***************************************************************************)
(* Data model: AnalysisResult (a finding) and AnalysisSummary.             *)
(* line 0 stands for None.                                                 *)
(***************************************************************************)
DefaultConfidence == 5

Severities == {"info", "warning", "error", "critical"}

\* a message is kept as <<text, name>>: the fixed text and the name the
\* f-string puts into it ("" when it has none)
AnalysisResult(path, line, severity, category, confidence) ==
    [file_path |-> path, line |-> line, severity |-> severity,
     category |-> category, confidence |-> confidence, message |-> <<"", "">>,
     code_snippet |-> [kind |-> "None"]]

\* AnalysisResult(..., message=..., code_snippet=...); the snippet is kept
\* as given only where the text of a match is cut (MatchSnippet)
Finding(path, line, severity, category, confidence, text, name) ==
    [AnalysisResult(path, line, severity, category, confidence)
        EXCEPT !.message = <<text, name>>, !.code_snippet = [kind |-> "given"]]

\* AnalysisSummary(): the dataclass defaults, with __post_init__ applied
AnalysisSummary ==
    [total_files |-> 0, total_issues |-> 0, issues_by_severity |-> <<>>,
     issues_by_category |-> <<>>, score |-> 0, grade |-> "NEEDS_REVIEW"]

(***************************************************************************)
(* The tree ast.parse returns.  A node is its class (type), the field of   *)
(* its parent that holds it (role), its lineno (0 when it has none), an    *)
(* identifier (Name.id, arg.arg, FunctionDef.name, alias.name,             *)
(* ImportFrom.module, keyword.arg; for a str Constant what its value       *)
(* holds) and its child nodes in the order of ast.iter_child_nodes.        *)
(***************************************************************************)
Node(type, role, line, name, kids) ==
    [type |-> type, role |-> role, line |-> line, name |-> name, kids |-> kids]

\* node.<role>: the children held by one field
Field(node, role) == SelectSeq(node.kids, LAMBDA k : k.role = role)

Name(role, line, id) ==
    Node("Name", role, line, id,
         <<Node(IF role = "targets" THEN "Store" ELSE "Load", "ctx", 0, "", <<>>)>>)

\* a constant; holds is "number" for a value that is not a str, else what
\* the checks on string literals look for in the value
Constant(role, line, holds) == Node("Constant", role, line, holds, <<>>)

Keyword(line, arg, value) == Node("keyword", "keywords", line, arg, <<value>>)

\* func(args, keywords); func is a Name or an Attribute with role "func"
Call(role, line, func, args, keywords) ==
    Node("Call", role, line, "", <<func>> \o args \o keywords)

\* value.attr
Attribute(role, line, value, attr) ==
    Node("Attribute", role, line, attr,
         <<value, Node("Load", "ctx", 0, "", <<>>)>>)

Expr(line, value) == Node("Expr", "body", line, "", <<value>>)

Assign(line, targets, value) == Node("Assign", "body", line, "", targets \o <<value>>)

\* one literal of a container display or another expression
Literal(type, role, line) ==
    Node(type, role, line, "",
         IF type \in {"List", "Set", "Tuple"}
         THEN <<Node("Load", "ctx", 0, "", <<>>)>> ELSE <<>>)

Arg(role, line, name) == Node("arg", role, line, name, <<>>)

\* ast.arguments: args, vararg, kwonlyargs, kw_defaults, kwarg, defaults
Arguments(args, vararg, kwonlyargs, kw_defaults, kwarg, defaults) ==
    Node("arguments", "args", 0, "",
         args \o vararg \o kwonlyargs \o kw_defaults \o kwarg \o defaults)

\* def name(...) (type FunctionDef) or async def (type AsyncFunctionDef)
FunctionDef(type, line, name, arguments, body) ==
    Node(type, "body", line, name, <<arguments>> \o body)

Pass(line) == Node("Pass", "body", line, "", <<>>)

\* if test: body
If(line, test, body) == Node("If", "body", line, "", <<test>> \o body)

\* except [type]: body
ExceptHandler(line, type, body) == Node("ExceptHandler", "handlers", line, "", type \o body)

Try(line, body, handlers) == Node("Try", "body", line, "", body \o handlers)

Alias(line, name) == Node("alias", "names", line, name, <<>>)

Import(line, names) == Node("Import", "body", line, "", names)

ImportFrom(line, module, names) == Node("ImportFrom", "body", line, module, names)

Module(body) == Node("Module", "", 0, "", body)

\* variant: the queue is never extended with the children
WalkTopOnly(todo) == todo

\* ast.walk: breadth first, from a queue of nodes
RECURSIVE Walk(_)
Walk(todo) ==
    IF todo = <<>> THEN <<>>
    ELSE <<Head(todo)>> \o Walk(Tail(todo) \o Head(todo).kids)

(***************************************************************************)
(* Inputs.  A file record is {path, content}.  The content is kept as what *)
(* the code reads from it: what ast.parse makes of it, fault "syntax"      *)
(* (SyntaxError at line errline), fault "internal" (another Exception,     *)
(* e.g. RecursionError or ValueError) or fault "none" with the tree; and,  *)
(* of the raw text, the offsets of its line breaks (newlines) and the      *)
(* matches re.finditer finds for the rules of the secret-pattern bank      *)
(* (matches: rule number, start offset and length of the matched text).   *)
(***************************************************************************)
PyExt == <<".", "p", "y">>

JsExt == <<".", "j", "s">>

Source(fault, errline, tree, newlines, matches) ==
    [fault |-> fault, errline |-> errline, tree |-> tree,
     newlines |-> newlines, matches |-> matches]

\* the empty text
EmptySource == Source("none", 0, Module(<<>>), {}, {})

\* a line break, then eval('1') on line 2
EvalSource ==
    Source("none", 0,
           Module(<<Expr(2, Call("value", 2, Name("func", 2, "eval"),
                                 <<Constant("args", 2, "")>>, <<>>))>>),
           {0, 10}, {})

FileRecords ==
    { [path |-> <<"a", ".", "p", "y">>, content |-> EvalSource],
      [path |-> <<"s", "/", "B", ".", "P", "Y">>,
       content |-> Source("internal", 0, Module(<<>>), {}, {})],
      [path |-> <<"c", ".", "j", "s">>, content |-> EmptySource],
      [path |-> <<"d", ".", "p", "y">>,
       content |-> Source("syntax", 1, Module(<<>>), {7}, {})] }

\* An analyzer: its kind (the class), config "enabled", the parameter
\* threshold its config gives (0: none given), what
\* get_supported_extensions returns, and whether that method raises.
AnalyzerConfigs ==
    { [kind |-> "security", enabled |-> TRUE, threshold |-> 0,
       exts |-> {PyExt}, ext_error |-> FALSE],
      [kind |-> "structure", enabled |-> TRUE, threshold |-> 0,
       exts |-> {PyExt}, ext_error |-> FALSE],
      [kind |-> "custom", enabled |-> TRUE, threshold |-> 0,
       exts |-> {JsExt}, ext_error |-> FALSE],
      [kind |-> "custom", enabled |-> FALSE, threshold |-> 0,
       exts |-> {JsExt}, ext_error |-> FALSE],
      [kind |-> "custom", enabled |-> TRUE, threshold |-> 0,
       exts |-> {PyExt}, ext_error |-> TRUE] }

(***************************************************************************)
(* CodeAnalyzerBase.is_supported                                           *)
(***************************************************************************)
\* variant: the membership test on the declared extensions is missing
IsSupportedAnySuffix(a, path) ==
    IF ~a.enabled THEN FALSE
    ELSE PathSuffix(path) # <<>>

IsSupported(a, path) ==
    IF ~a.enabled THEN FALSE
    ELSE Lower(PathSuffix(path)) \in a.exts

(***************************************************************************)
(* analyze(file_path, content): the set of ways one call can end.          *)
(* kind "return" carries the returned list; "raise" is an Exception        *)
(* leaving analyze; "cancel" is asyncio.CancelledError (a BaseException)   *)
(* leaving it.  failed marks a call whose analysis failed internally.      *)
(***************************************************************************)
Returned(fs, failed) == [kind |-> "return", findings |-> fs, failed |-> failed]

Raised == [kind |-> "raise", findings |-> <<>>, failed |-> TRUE]

Cancelled == [kind |-> "cancel", findings |-> <<>>, failed |-> FALSE]

(***************************************************************************)
(* PythonSecurityAnalyzer                                                  *)
(***************************************************************************)
\* the messages of self.sensitive_patterns, in the order of the list
SensitivePatterns ==
    << "Hardcoded API key detected",
       "Hardcoded token detected",
       "Hardcoded secret/password detected",
       "Database URL in code",
       "Database password in code",
       "AWS access key ID in code",
       "AWS secret access key in code",
       "Private key in code",
       "SSH private key in code" >>

\* ASTSecurityAnalyzer.visit_Call, visit_Import, visit_ImportFrom: the
\* issues one node adds
SecurityIssues(path, node) ==
    LET func == Field(node, "func")[1]
        hit(kw) == \/ kw.name = "loads"
                   \/ /\ Field(node, "args") # <<>>
                      /\ kw.kids[1].type = "Constant"
                      /\ kw.kids[1].name = "load"
        kws == SelectSeq(Field(node, "keywords"), hit)
        dangerous == SelectSeq(Field(node, "names"),
                               LAMBDA al : al.name \in {"subprocess", "os.system",
                                                        "commands", "shutil", "glob"})
    IN CASE node.type = "Call" /\ func.type = "Name" /\ func.name \in {"eval", "exec"} ->
              <<Finding(path, node.line, "critical", "security", DefaultConfidence,
                        "Use of dangerous function", func.name)>>
         [] node.type = "Call" /\ func.type = "Name" /\ func.name = "input" ->
              <<Finding(path, node.line, "warning", "security", DefaultConfidence,
                        "Use of input() function without validation", "")>>
         [] node.type = "Call" /\ func.type = "Name" /\ func.name \in {"pickle", "cPickle"} ->
              [k \in 1..Len(kws) |->
                  Finding(path, node.line, "warning", "security", DefaultConfidence,
                          "Use of pickle.loads() - potential deserialization vulnerability",
                          "")]
         [] node.type = "Import" ->
              [k \in 1..Len(dangerous) |->
                  Finding(path, node.line, "info", "security", DefaultConfidence,
                          "Import of potentially dangerous module", dangerous[k].name)]
         [] /\ node.type = "ImportFrom"
            /\ node.name = "os"
            /\ \E k \in 1..Len(node.kids) : node.kids[k].name \in {"system", "popen", "spawn"} ->
              <<Finding(path, node.line, "warning", "security", DefaultConfidence,
                        "Import of dangerous os functions", "")>>
         [] OTHER -> <<>>

\* analyzer.visit(tree): NodeVisitor goes depth first, a node before its
\* children
RECURSIVE AnalyzeAst(_, _)
AnalyzeAst(path, node) ==
    SecurityIssues(path, node)
        \o Flatten([k \in 1..Len(node.kids) |-> AnalyzeAst(path, node.kids[k])])

\* content[:match.start()].count('\n') + 1
LineNumber(content, start) == Cardinality({n \in content.newlines : n < start}) + 1

\* the elements of a finite set of numbers, ascending (finditer goes left
\* to right)
RECURSIVE Ascending(_)
Ascending(S) ==
    IF S = {} THEN <<>>
    ELSE LET m == CHOOSE x \in S : \A y \in S : x <= y IN <<m>> \o Ascending(S \ {m})

SnippetLimit == 100

\* variant: a text of exactly the limit is cut too
MatchSnippetFromLimit(m) ==
    IF m.len >= SnippetLimit
    THEN [kind |-> "match", start |-> m.start, chars |-> Min(m.len, SnippetLimit),
          dots |-> 3]
    ELSE [kind |-> "match", start |-> m.start, chars |-> m.len, dots |-> 0]

\* match.group(0)[:100] + "..." if len(match.group(0)) > 100 else
\* match.group(0): the text from offset start, chars characters of it, and
\* the number of dots after them
MatchSnippet(m) ==
    IF m.len > SnippetLimit
    THEN [kind |-> "match", start |-> m.start, chars |-> Min(m.len, SnippetLimit),
          dots |-> 3]
    ELSE [kind |-> "match", start |-> m.start, chars |-> m.len, dots |-> 0]

\* _analyze_patterns: for each rule in order, one finding per match
AnalyzePatterns(path, content) ==
    Flatten([r \in 1..Len(SensitivePatterns) |->
        LET of_rule == {x \in content.matches : x.rule = r}
            starts == Ascending({m.start : m \in of_rule})
        IN [k \in 1..Len(starts) |->
               [Finding(path, LineNumber(content, starts[k]), "critical", "security",
                        DefaultConfidence, SensitivePatterns[r], "")
                   EXCEPT !.code_snippet =
                       MatchSnippet(CHOOSE m \in of_rule : m.start = starts[k])]]])

\* _is_sql_injection_risk, _is_command_injection_risk: re.search of the
\* pattern lists in the value
IsSqlInjectionRisk(holds) == holds = "sql"

IsCommandInjectionRisk(holds) == holds = "command"

\* the characters of the str constants of the catalogue texts
StringValue(holds) ==
    CASE holds = "sql" ->
          <<"S", "E", "L", "E", "C", "T", " ", "a", " ", "F", "R", "O", "M", " ",
            "t", " ", "W", "H", "E", "R", "E", " ", "b", " ", "+", " ", "1">>
      [] holds = "command" ->
          <<"o", "s", ".", "s", "y", "s", "t", "e", "m", "(", "c", "m", "d", ")">>
      [] holds = "dotdot" ->
          <<".", ".", "/", "e", "t", "c", "/", "p", "a", "s", "s", "w", "d">>
      [] holds = "escaped dotdot" ->
          <<"\\", ".", "\\", ".", "/">>
      [] holds = "backslash dotdot" ->
          <<".", ".", "\\", "w", "i", "n">>
      [] OTHER -> <<>>

\* traversal_patterns: raw strings, so each backslash is a character
TraversalPatterns ==
    { <<"\\", ".", "\\", ".", "/">>,
      <<"\\", ".", "\\", ".", "\\", "\\">>,
      <<"/", "\\", ".", "\\", ".", "/">>,
      <<"\\", "\\", "\\", ".", "\\", ".", "\\", "\\">> }

\* p in s for two str
Contains(s, p) ==
    \E i \in 0..(Len(s) - Len(p)) : \A k \in 1..Len(p) : s[i + k] = p[k]

\* _is_path_traversal_risk: pattern in string_value, a substring test
IsPathTraversalRisk(holds) ==
    \E p \in TraversalPatterns : Contains(StringValue(holds), p)

\* _analyze_strings: the str constants in ast.walk order
AnalyzeStrings(path, tree) ==
    LET nodes == SelectSeq(Walk(<<tree>>),
                           LAMBDA n : n.type = "Constant" /\ n.name # "number")
        checks(n) ==
            (IF IsSqlInjectionRisk(n.name)
             THEN <<Finding(path, n.line, "warning", "security", DefaultConfidence,
                            "Potential SQL injection vulnerability", "")>> ELSE <<>>)
            \o (IF IsCommandInjectionRisk(n.name)
                THEN <<Finding(path, n.line, "critical", "security", DefaultConfidence,
                               "Potential command injection vulnerability", "")>> ELSE <<>>)
            \o (IF IsPathTraversalRisk(n.name)
                THEN <<Finding(path, n.line, "warning", "security", DefaultConfidence,
                               "Potential path traversal vulnerability", "")>> ELSE <<>>)
    IN Flatten([k \in 1..Len(nodes) |-> checks(nodes[k])])

\* PythonSecurityAnalyzer.analyze: parse, tree checks, pattern checks and
\* string checks inside one try
SecurityAnalyze(file) ==
    LET c == file.content IN
    CASE c.fault = "syntax" ->
           Returned(<<Finding(file.path, c.errline, "warning", "security",
                              DefaultConfidence, "Syntax error in Python code", "")>>,
                    FALSE)
      [] c.fault = "internal" ->
           Returned(<<Finding(file.path, 0, "error", "security", DefaultConfidence,
                              "Security analysis failed", "")>>, TRUE)
      [] OTHER ->
           Returned(AnalyzeAst(file.path, c.tree)
                        \o AnalyzePatterns(file.path, c)
                        \o AnalyzeStrings(file.path, c.tree),
                    FALSE)

(***************************************************************************)
(* StructureAnalyzer                                                       *)
(***************************************************************************)
ParamLimit == 6

NestingLimit == 8

\* set(dir(__builtins__)): in a module that is imported, CPython binds
\* __builtins__ to the dict of the builtins module, so dir lists the
\* attributes of a dict
BuiltinNames ==
    {"clear", "copy", "fromkeys", "get", "items", "keys", "pop", "popitem",
     "setdefault", "update", "values", "__class__", "__doc__", "__len__"}

\* variant: _depth is compared before it is incremented
RECURSIVE NestingDepthLate(_)
NestingDepthLate(node) ==
    LET below == {NestingDepthLate(node.kids[k]) + 1 : k \in 1..Len(node.kids)}
    IN IF below = {} THEN 0 ELSE CHOOSE d \in below : \A e \in below : e <= d

\* NestingVisitor: max_depth after visit(node)
RECURSIVE NestingDepth(_)
NestingDepth(node) ==
    LET below == {NestingDepth(node.kids[k]) : k \in 1..Len(node.kids)}
    IN 1 + (IF below = {} THEN 0 ELSE CHOOSE d \in below : \A e \in below : e <= d)

\* assigned_names: the Name targets of Assign and AnnAssign
AssignedNames(tree) ==
    LET nodes == Walk(<<tree>>)
    IN UNION {{t.name : t \in {n \in {nodes[k].kids[j] : j \in 1..Len(nodes[k].kids)} :
                                 n.role \in {"targets", "target"} /\ n.type = "Name"}}
              : k \in {i \in 1..Len(nodes) : nodes[i].type \in {"Assign", "AnnAssign"}}}

\* the orders in which iterating a set can yield its elements: the order
\* of a set of str follows the hashes of the interpreter process
SetOrders(S) ==
    {o \in [1..Cardinality(S) -> S] : \A i, j \in 1..Cardinality(S) : i # j => o[i] # o[j]}

\* the findings one node of the walk adds
StructureNodeFindings(path, node) ==
    LET args == Field(node, "args")[1]
        arg_count == Len(Field(args, "args")) + Len(Field(args, "kwonlyargs"))
                         + Len(Field(args, "vararg")) + Len(Field(args, "kwarg"))
        mutable == SelectSeq(Field(args, "defaults"),
                             LAMBDA d : d.type \in {"List", "Dict", "Set"})
        func == Field(node, "func")[1]
    IN (IF node.type = "FunctionDef" /\ arg_count > ParamLimit
        THEN <<Finding(path, node.line, "warning", "structure", 6,
                       "has many parameters", node.name)>> ELSE <<>>)
       \o (IF node.type = "FunctionDef"
           THEN [k \in 1..Len(mutable) |->
                    Finding(path, node.line, "warning", "structure", 8,
                            "uses a mutable default argument", node.name)]
           ELSE <<>>)
       \o (IF node.type = "ExceptHandler" /\ Field(node, "type") = <<>>
           THEN <<Finding(path, node.line, "warning", "structure", 7,
                          "Bare except clause detected.", "")>> ELSE <<>>)
       \o (IF node.type = "Call" /\ func.type = "Name" /\ func.name \in {"eval", "exec"}
           THEN <<Finding(path, node.line, "error", "structure", 9,
                          "this can be unsafe", func.name)>> ELSE <<>>)
       \o (IF node.type = "Call" /\ func.type = "Name" /\ func.name = "print"
           THEN <<Finding(path, node.line, "info", "structure", 5,
                          "Use of 'print' detected", "")>> ELSE <<>>)

\* variant: the except clause appends its finding and does not return, so
\* the file-wide checks that follow still add theirs
StructureSyntaxErrorGoesOn(path, errline) ==
    <<Finding(path, errline, "error", "structure", 9, "Syntax error", ""),
      Finding(path, 0, "warning", "structure", 6, "High nesting depth", "")>>

\* except SyntaxError: one finding, then return results
StructureSyntaxError(path, errline) ==
    <<Finding(path, errline, "error", "structure", 9, "Syntax error", "")>>

\* StructureAnalyzer.analyze, with the order in which the set shadowed is
\* iterated
StructureAnalyze(file, order) ==
    LET c == file.content
        nodes == Walk(<<c.tree>>)
    IN CASE c.fault = "syntax" ->
              Returned(StructureSyntaxError(file.path, c.errline), FALSE)
         [] c.fault = "internal" -> Raised
         [] OTHER ->
              Returned(Flatten([k \in 1..Len(nodes) |->
                                   StructureNodeFindings(file.path, nodes[k])])
                         \o [k \in 1..Len(order) |->
                                Finding(file.path, 0, "warning", "structure", 6,
                                        "shadows a Python builtin.", order[k])]
                         \o (IF NestingDepth(c.tree) > NestingLimit
                             THEN <<Finding(file.path, 0, "warning", "structure", 6,
                                            "High nesting depth", "")>>
                             ELSE <<>>),
                       FALSE)

\* the ways one call of StructureAnalyzer.analyze can end
StructureOutcomes(file) ==
    {StructureAnalyze(file, order) :
        order \in SetOrders(AssignedNames(file.content.tree) \cap BuiltinNames)}

\* any other implementation of the abstract analyze
CustomAnalyze(file) ==
    { Returned(<<>>, FALSE),
      Returned(<<AnalysisResult(file.path, 0, "info", "general", 10)>>, FALSE),
      Raised,
      Cancelled }

AnalyzeOutcomes(a, file) ==
    CASE a.kind = "security" -> {SecurityAnalyze(file)}
      [] a.kind = "structure" -> StructureOutcomes(file)
      [] OTHER -> CustomAnalyze(file)

(***************************************************************************)
(* AnalysisEngine._calculate_score, _calculate_grade, _aggregate_results   *)
(***************************************************************************)
MaxPenaltyPerFile == 100

\* severity_weights.get(result.severity, 0.5), in tenths
SeverityWeight(severity) ==
    CASE severity = "info" -> 1
      [] severity = "warning" -> 3
      [] severity = "error" -> 7
      [] severity = "critical" -> 10
      [] OTHER -> 5

\* (result.confidence or 0.5): a confidence of 0.0 is falsy
ConfidenceOr(result) ==
    IF result.confidence = 0 THEN DefaultConfidence ELSE result.confidence

\* file_results[path]: the findings of one path, in order
FileResults(results, path) == SelectSeq(results, LAMBDA r : r.file_path = path)

\* variant: the penalty of a path is not capped
FilePenaltyUncapped(results, path) ==
    LET rs == FileResults(results, path)
    IN SumSeq([k \in 1..Len(rs) |->
                  SeverityWeight(rs[k].severity) * ConfidenceOr(rs[k])])

\* the capped penalty of one path, in hundredths
FilePenalty(results, path) ==
    LET rs == FileResults(results, path)
        file_penalty == SumSeq([k \in 1..Len(rs) |->
                                   SeverityWeight(rs[k].severity) * ConfidenceOr(rs[k])])
    IN Min(file_penalty, MaxPenaltyPerFile)

TotalPenalty(results) ==
    LET paths == {results[k].file_path : k \in 1..Len(results)}
    IN SumOver(paths, [p \in paths |-> FilePenalty(results, p)])

\* num/den rounded to the nearest integer, ties to even (round(x, 3) on thousandths)
RoundHalfEven(num, den) ==
    LET q == num \div den
        r == num % den
    IN IF 2 * r < den THEN q
       ELSE IF 2 * r > den THEN q + 1
       ELSE IF q % 2 = 0 THEN q ELSE q + 1

\* variant: the penalty fraction is added instead of subtracted
CalculateScoreSignSlip(results, fs) ==
    IF fs = <<>> THEN 1000
    ELSE IF results = <<>> THEN 1000
    ELSE LET num == 1000 * Len(fs) + 10 * TotalPenalty(results)
         IN RoundHalfEven(Max(0, num), Len(fs))

\* variant: with no finding the score stays at the Summary's default 0.0
CalculateScoreKeepsDefault(results, fs) ==
    IF fs = <<>> THEN 1000
    ELSE IF results = <<>> THEN 0
    ELSE LET num == 1000 * Len(fs) - 10 * TotalPenalty(results)
         IN RoundHalfEven(Max(0, num), Len(fs))

\* the score in thousandths
CalculateScore(results, fs) ==
    IF fs = <<>> THEN 1000
    ELSE IF results = <<>> THEN 1000
    ELSE \* 1.0 - total_penalty / max_possible_penalty is num / Len(fs) thousandths
         LET num == 1000 * Len(fs) - 10 * TotalPenalty(results)
         IN RoundHalfEven(Max(0, num), Len(fs))

\* variant: strict comparisons at the thresholds
CalculateGradeStrict(score) ==
    IF score > 900 THEN "EXCELLENT"
    ELSE IF score > 700 THEN "GOOD"
    ELSE IF score > 500 THEN "NEEDS_IMPROVEMENT"
    ELSE "POOR"

CalculateGrade(score) ==
    IF score >= 900 THEN "EXCELLENT"
    ELSE IF score >= 700 THEN "GOOD"
    ELSE IF score >= 500 THEN "NEEDS_IMPROVEMENT"
    ELSE "POOR"

\* variant: counts[value] = 1 for counts[value] = counts.get(value, 0) + 1
CountByPresence(results, field, value) ==
    IF \E k \in 1..Len(results) : results[k][field] = value THEN 1 ELSE 0

\* counts.get(value, 0) + 1 over the results, for one value
CountBy(results, field, value) ==
    Cardinality({k \in 1..Len(results) : results[k][field] = value})

AggregateResults(results, fs) ==
    LET sevs == {results[k].severity : k \in 1..Len(results)}
        cats == {results[k].category : k \in 1..Len(results)}
        score == CalculateScore(results, fs)
    IN [total_files |-> Len(fs),
        total_issues |-> Len(results),
        issues_by_severity |-> [s \in sevs |-> CountBy(results, "severity", s)],
        issues_by_category |-> [c \in cats |-> CountBy(results, "category", c)],
        score |-> score,
        grade |-> CalculateGrade(score)]

(***************************************************************************)
(* CodeAnalyzerBase.analyze_batch, one awaited analyze call per step (the  *)
(* coroutine can be suspended only inside the call).  A task is the        *)
(* coroutine analyze_batch(files) of one enabled analyzer:                 *)
(* an = the analyzer's index, i = the loop position, results = its local   *)
(* list, state = pending | done (returned) | failed (an Exception left     *)
(* it) | cancelled (CancelledError left it).                               *)
(***************************************************************************)
\* variant: the confidence written in percent
AnalysisErrorFindingPercent(path) ==
    AnalysisResult(path, 0, "error", "analysis_error", 50)

AnalysisErrorFinding(path) ==
    AnalysisResult(path, 0, "error", "analysis_error", DefaultConfidence)

\* variant: the except clause lets the exception leave analyze_batch
BatchAfterReraise(task, file, out) ==
    CASE out.kind = "return" ->
           [task EXCEPT !.results = @ \o out.findings, !.i = @ + 1]
      [] out.kind = "raise" -> [task EXCEPT !.state = "failed"]
      [] OTHER -> [task EXCEPT !.state = "cancelled"]

\* variant: the findings of a file are put in front of the list
BatchAfterPrepend(task, file, out) ==
    CASE out.kind = "return" ->
           [task EXCEPT !.results = out.findings \o @, !.i = @ + 1]
      [] out.kind = "raise" ->
           [task EXCEPT !.results = <<AnalysisErrorFinding(file.path)>> \o @,
                        !.i = @ + 1]
      [] OTHER -> [task EXCEPT !.state = "cancelled"]

\* the try/except around one analyze call
BatchAfter(task, file, out) ==
    CASE out.kind = "return" ->
           [task EXCEPT !.results = @ \o out.findings, !.i = @ + 1]
      [] out.kind = "raise" ->
           [task EXCEPT !.results = Append(@, AnalysisErrorFinding(file.path)),
                        !.i = @ + 1]
      [] OTHER -> [task EXCEPT !.state = "cancelled"]

\* rank: the position of the task among the finished ones, where the
\* specification records it (0 otherwise)
NewTask(an) ==
    [an |-> an, i |-> 1, results |-> <<>>, state |-> "pending", rank |-> 0]

\* the indices of the analyzers with enabled true, in list order
RECURSIVE EnabledFrom(_, _)
EnabledFrom(as, k) ==
    IF k > Len(as) THEN <<>>
    ELSE (IF as[k].enabled THEN <<k>> ELSE <<>>) \o EnabledFrom(as, k + 1)

\* variant: a second attempt is launched for every enabled analyzer
LaunchTasksTwice(as) ==
    LET en == EnabledFrom(as, 1) IN [k \in 1..(2 * Len(en)) |-> NewTask(en[((k - 1) % Len(en)) + 1])]

\* tasks = [analyzer.analyze_batch(files) for the enabled analyzers]
LaunchTasks(as) ==
    LET en == EnabledFrom(as, 1) IN [k \in 1..Len(en) |-> NewTask(en[k])]

(***************************************************************************)
(* asyncio.gather over tasks with return_exceptions=True, and the loop     *)
(* over its results.                                                       *)
(***************************************************************************)
\* variant: gather without return_exceptions ends at the first child that raises
GatherFirstException(ts) ==
    \/ \A t \in DOMAIN ts : ts[t].state # "pending"
    \/ \E t \in DOMAIN ts : ts[t].state = "failed"

\* the result of child t
ChildResult(task) ==
    CASE task.state = "done" -> [kind |-> "list", findings |-> task.results]
      [] task.state = "failed" -> [kind |-> "Exception", findings |-> <<>>]
      [] OTHER -> [kind |-> "CancelledError", findings |-> <<>>]

\* variant: the results come in the order in which the children finished
\* (asyncio.as_completed), children of equal rank in the order of tasks
GatherResultsAsCompleted(ts) ==
    LET before(u, t) == \/ ts[u].rank < ts[t].rank
                        \/ ts[u].rank = ts[t].rank /\ u < t
    IN [k \in DOMAIN ts |->
           ChildResult(ts[CHOOSE t \in DOMAIN ts :
                             Cardinality({u \in DOMAIN ts : before(u, t)}) = k - 1])]

\* gather is done when every child is done
GatherReady(ts) == \A t \in DOMAIN ts : ts[t].state # "pending"

\* one result per child, in the order of tasks: the returned list, the
\* Exception it raised, or a CancelledError for a cancelled child
GatherResults(ts) == [t \in DOMAIN ts |-> ChildResult(ts[t])]

\* isinstance(results, Exception): CancelledError derives from BaseException
IsException(r) == r.kind = "Exception"

\* variant: the loop stops at the first Exception (break for continue)
RECURSIVE CollectResultsBreak(_, _)
CollectResultsBreak(analyzer_results, acc) ==
    IF analyzer_results = <<>> THEN [raised |-> FALSE, all |-> acc]
    ELSE LET r == Head(analyzer_results) IN
         IF r.kind = "Exception" THEN [raised |-> FALSE, all |-> acc]
         ELSE IF r.kind = "list"
              THEN CollectResultsBreak(Tail(analyzer_results), acc \o r.findings)
              ELSE [raised |-> TRUE, all |-> acc]

\* for results in analyzer_results: ... ; all_results.extend(results) raises
\* TypeError when results is not iterable
RECURSIVE CollectResults(_, _)
CollectResults(analyzer_results, acc) ==
    IF analyzer_results = <<>> THEN [raised |-> FALSE, all |-> acc]
    ELSE LET r == Head(analyzer_results) IN
         IF IsException(r) THEN CollectResults(Tail(analyzer_results), acc)
         ELSE IF r.kind = "list"
              THEN CollectResults(Tail(analyzer_results), acc \o r.findings)
              ELSE [raised |-> TRUE, all |-> acc]

(***************************************************************************)
(* State machine of one analyze_files call.                                *)
(* pc: idle (before the call), gather (awaiting asyncio.gather), done (a   *)
(* Summary was returned), raised (an error left analyze_files).            *)
(* calls[t] is the history of the analyze invocations of task t: the       *)
(* position of the file record, the way the call ended and the findings    *)
(* the loop iteration added to the task's results.                         *)
(***************************************************************************)
Init ==
    /\ analyzers \in SeqsUpTo(AnalyzerConfigs, MaxAnalyzers)
    /\ files \in SeqsUpTo(FileRecords, MaxFiles)
    /\ pc = "idle"
    /\ tasks = <<>>
    /\ calls = <<>>
    /\ all_results = <<>>
    /\ summary = AnalysisSummary
    /\ ops = <<>>

\* analyze_files up to its await; with no task there is no await at all
Launch ==
    /\ pc = "idle"
    /\ tasks' = LaunchTasks(analyzers)
    /\ IF tasks' = <<>>
       THEN /\ pc' = "done"
            /\ summary' = AggregateResults(<<>>, files)
       ELSE /\ pc' = "gather"
            /\ UNCHANGED summary
    /\ calls' = [t \in DOMAIN tasks' |-> <<>>]
    /\ UNCHANGED <<ops, analyzers, files, all_results>>

\* the position of the next file the loop does not skip, from position i
\* on: if not self.is_supported(path): continue
RECURSIVE NextSupported(_, _)
NextSupported(a, i) ==
    IF i > Len(files) THEN i
    ELSE IF IsSupported(a, files[i].path) THEN i
    ELSE NextSupported(a, i + 1)

\* after an iteration the loop runs on without suspending: past the files
\* it skips and, when none is left, to return results
RunOn(a, task) ==
    IF task.state = "pending" /\ NextSupported(a, task.i) > Len(files)
    THEN [task EXCEPT !.state = "done"]
    ELSE task

\* a batch with no file this analyzer supports: return results, no analyze
TaskReturn(t) ==
    /\ pc = "gather"
    /\ tasks[t].state = "pending"
    /\ files = <<>> \/ ~analyzers[tasks[t].an].ext_error
    /\ NextSupported(analyzers[tasks[t].an], tasks[t].i) > Len(files)
    /\ tasks' = [tasks EXCEPT ![t].state = "done"]
    /\ UNCHANGED <<ops, analyzers, files, pc, calls, all_results, summary>>

\* is_supported raises (get_supported_extensions failed): the task raises
TaskFail(t) ==
    /\ pc = "gather"
    /\ tasks[t].state = "pending"
    /\ tasks[t].i <= Len(files)
    /\ analyzers[tasks[t].an].ext_error
    /\ tasks' = [tasks EXCEPT ![t].state = "failed"]
    /\ UNCHANGED <<ops, analyzers, files, pc, calls, all_results, summary>>

\* file_results = await self.analyze(path, content), inside try/except, for
\* the next file that is not skipped
TaskAnalyze(t) ==
    LET a == analyzers[tasks[t].an]
        k == NextSupported(a, tasks[t].i)
    IN /\ pc = "gather"
       /\ tasks[t].state = "pending"
       /\ ~a.ext_error
       /\ k <= Len(files)
       /\ \E out \in AnalyzeOutcomes(a, files[k]) :
             /\ tasks' = [tasks EXCEPT ![t] =
                             RunOn(a, BatchAfter([tasks[t] EXCEPT !.i = k], files[k], out))]
             /\ calls' = [calls EXCEPT ![t] =
                             Append(@, [file |-> k, out |-> out,
                                        added |-> SubSeq(tasks'[t].results,
                                                         Len(tasks[t].results) + 1,
                                                         Len(tasks'[t].results))])]
       /\ UNCHANGED <<ops, analyzers, files, pc, all_results, summary>>

\* gather returns; the results are collected and aggregated without
\* another await
Join ==
    /\ pc = "gather"
    /\ GatherReady(tasks)
    /\ LET c == CollectResults(GatherResults(tasks), <<>>) IN
          /\ all_results' = c.all
          /\ IF c.raised
             THEN /\ pc' = "raised"
                  /\ UNCHANGED summary
             ELSE /\ pc' = "done"
                  /\ summary' = AggregateResults(c.all, files)
    /\ UNCHANGED <<ops, analyzers, files, tasks, calls>>

Next ==
    \/ Launch
    \/ \E t \in DOMAIN tasks : TaskReturn(t)
    \/ \E t \in DOMAIN tasks : TaskFail(t)
    \/ \E t \in DOMAIN tasks : TaskAnalyze(t)
    \/ Join

Spec == Init /\ [][Next]_vars

(***************************************************************************)
(* The concrete analyzers taken alone: analyze_batch over one file, run    *)
(* up to MaxRuns times on the analyzers of the list.  Every run is its own *)
(* coroutine, possibly in its own interpreter process; tasks[r] and        *)
(* calls[r] are the task and the call history of run r.  The files range   *)
(* over a catalogue of Python texts, each given with the facts the         *)
(* analyzers read from it.                                                 *)
(***************************************************************************)
MaxRuns == 2

MaxNest == 6

NoArguments == Arguments(<<>>, <<>>, <<>>, <<>>, <<>>, <<>>)

\* def f():
\*     eval("1")
\* exec("2")
DfsSource ==
    Source("none", 0,
           Module(<<FunctionDef("FunctionDef", 1, "f", NoArguments,
                                <<Expr(2, Call("value", 2, Name("func", 2, "eval"),
                                               <<Constant("args", 2, "")>>, <<>>))>>),
                    Expr(3, Call("value", 3, Name("func", 3, "exec"),
                                 <<Constant("args", 3, "")>>, <<>>))>>),
           {8, 22, 32}, {})

\* x = 1
\* api_key = "abcdefghij0123456789"
SecretSource ==
    Source("none", 0,
           Module(<<Assign(1, <<Name("targets", 1, "x")>>, Constant("value", 1, "number")),
                    Assign(2, <<Name("targets", 2, "api_key")>>, Constant("value", 2, ""))>>),
           {5, 38}, {[rule |-> 1, start |-> 6, len |-> 32]})

\* api_key = "abcdefghij0123456789"
\* def (:
BrokenSecretSource ==
    Source("syntax", 2, Module(<<>>), {32, 39}, {[rule |-> 1, start |-> 0, len |-> 32]})

\* password = "hunter2hunter2"
\* api_key = "abcdefghij0123456789"
\* api_key = "ABCDEFGHIJ0123456789"
ManySecretsSource ==
    Source("none", 0,
           Module(<<Assign(1, <<Name("targets", 1, "password")>>, Constant("value", 1, "")),
                    Assign(2, <<Name("targets", 2, "api_key")>>, Constant("value", 2, "")),
                    Assign(3, <<Name("targets", 3, "api_key")>>, Constant("value", 3, ""))>>),
           {27, 60, 93},
           {[rule |-> 3, start |-> 0, len |-> 27], [rule |-> 1, start |-> 28, len |-> 32],
            [rule |-> 1, start |-> 61, len |-> 32]})

\* def f(a=[], b={}, c=1, d={1}, e=()):
\*     pass
PositionalDefaultsSource ==
    Source("none", 0,
           Module(<<FunctionDef("FunctionDef", 1, "f",
                        Arguments(<<Arg("args", 1, "a"), Arg("args", 1, "b"),
                                    Arg("args", 1, "c"), Arg("args", 1, "d"),
                                    Arg("args", 1, "e")>>,
                                  <<>>, <<>>, <<>>, <<>>,
                                  <<Literal("List", "defaults", 1),
                                    Literal("Dict", "defaults", 1),
                                    Constant("defaults", 1, "number"),
                                    Node("Set", "defaults", 1, "",
                                         <<Constant("elts", 1, "number")>>),
                                    Literal("Tuple", "defaults", 1)>>),
                        <<Pass(2)>>)>>),
           {36, 45}, {})

\* def g(*, k=[]):
\*     pass
KeywordOnlyDefaultSource ==
    Source("none", 0,
           Module(<<FunctionDef("FunctionDef", 1, "g",
                        Arguments(<<>>, <<>>, <<Arg("kwonlyargs", 1, "k")>>,
                                  <<Literal("List", "kw_defaults", 1)>>, <<>>, <<>>),
                        <<Pass(2)>>)>>),
           {15, 24}, {})

\* async def h(a=[]):
\*     pass
AsyncDefaultSource ==
    Source("none", 0,
           Module(<<FunctionDef("AsyncFunctionDef", 1, "h",
                        Arguments(<<Arg("args", 1, "a")>>, <<>>, <<>>, <<>>, <<>>,
                                  <<Literal("List", "defaults", 1)>>),
                        <<Pass(2)>>)>>),
           {18, 27}, {})

\* keys = 3
\* items = 4
\* list = 5
ShadowSource ==
    Source("none", 0,
           Module(<<Assign(1, <<Name("targets", 1, "keys")>>, Constant("value", 1, "number")),
                    Assign(2, <<Name("targets", 2, "items")>>, Constant("value", 2, "number")),
                    Assign(3, <<Name("targets", 3, "list")>>, Constant("value", 3, "number"))>>),
           {8, 18, 27}, {})

\* import subprocess
\* from os import system
\* def big(a, b, c, d, e, f, g):
\*     try:
\*         print(input())
\*     except:
\*         pass
MixedSource ==
    Source("none", 0,
           Module(<<Import(1, <<Alias(1, "subprocess")>>),
                    ImportFrom(2, "os", <<Alias(2, "system")>>),
                    FunctionDef("FunctionDef", 3, "big",
                        Arguments(<<Arg("args", 3, "a"), Arg("args", 3, "b"),
                                    Arg("args", 3, "c"), Arg("args", 3, "d"),
                                    Arg("args", 3, "e"), Arg("args", 3, "f"),
                                    Arg("args", 3, "g")>>,
                                  <<>>, <<>>, <<>>, <<>>, <<>>),
                        <<Try(4,
                              <<Expr(5, Call("value", 5, Name("func", 5, "print"),
                                             <<Call("args", 5, Name("func", 5, "input"),
                                                    <<>>, <<>>)>>,
                                             <<>>))>>,
                              <<ExceptHandler(6, <<>>, <<Pass(7)>>)>>)>>)>>),
           {17, 39, 69, 78, 101, 113, 126}, {})

\* a = "SELECT a FROM t WHERE b + 1"
\* b = "os.system(cmd)"
\* c = "../etc/passwd"
\* d = "\\.\\./"
\* e = "..\\win"
StringsSource ==
    Source("none", 0,
           Module(<<Assign(1, <<Name("targets", 1, "a")>>, Constant("value", 1, "sql")),
                    Assign(2, <<Name("targets", 2, "b")>>, Constant("value", 2, "command")),
                    Assign(3, <<Name("targets", 3, "c")>>, Constant("value", 3, "dotdot")),
                    Assign(4, <<Name("targets", 4, "d")>>,
                           Constant("value", 4, "escaped dotdot")),
                    Assign(5, <<Name("targets", 5, "e")>>,
                           Constant("value", 5, "backslash dotdot"))>>),
           {33, 54, 74, 88, 102}, {})

\* def p(a, b, c, d, e, f, g, /):
\*     pass
PositionalOnlySource ==
    Source("none", 0,
           Module(<<FunctionDef("FunctionDef", 1, "p",
                        Arguments(<<Arg("posonlyargs", 1, "a"), Arg("posonlyargs", 1, "b"),
                                    Arg("posonlyargs", 1, "c"), Arg("posonlyargs", 1, "d"),
                                    Arg("posonlyargs", 1, "e"), Arg("posonlyargs", 1, "f"),
                                    Arg("posonlyargs", 1, "g")>>,
                                  <<>>, <<>>, <<>>, <<>>, <<>>),
                        <<Pass(2)>>)>>),
           {30, 39}, {})

\* import pickle
\* x = pickle.loads(data)
\* y = pickle(loads=data)
PickleSource ==
    Source("none", 0,
           Module(<<Import(1, <<Alias(1, "pickle")>>),
                    Assign(2, <<Name("targets", 2, "x")>>,
                           Call("value", 2,
                                Attribute("func", 2, Name("value", 2, "pickle"), "loads"),
                                <<Name("args", 2, "data")>>, <<>>)),
                    Assign(3, <<Name("targets", 3, "y")>>,
                           Call("value", 3, Name("func", 3, "pickle"), <<>>,
                                <<Keyword(3, "loads", Name("value", 3, "data"))>>))>>),
           {13, 36, 59}, {})

\* password = "xx...x"      (87 times x: the match is 100 characters)
\* password = "xx...x"      (88 times x: the match is 101 characters)
LongSecretSource ==
    Source("none", 0,
           Module(<<Assign(1, <<Name("targets", 1, "password")>>, Constant("value", 1, "")),
                    Assign(2, <<Name("targets", 2, "password")>>, Constant("value", 2, ""))>>),
           {100, 202},
           {[rule |-> 3, start |-> 0, len |-> 100], [rule |-> 3, start |-> 101, len |-> 101]})

\* d times "if x:", each inside the one before, around "pass"
RECURSIVE NestedIf(_, _)
NestedIf(line, d) ==
    IF d = 0 THEN Pass(line)
    ELSE If(line, Name("test", line, "x"), <<NestedIf(line + 1, d - 1)>>)

\* the text of NestedIf, indented by four spaces a level
NestSource(d) ==
    Source("none", 0, Module(<<NestedIf(1, d)>>),
           {2 * i * i + 8 * i + 5 : i \in 0..(d - 1)}
               \cup {2 * (d - 1) * (d - 1) + 8 * (d - 1) + 5 + 4 * d + 5},
           {})

Sources ==
    { EmptySource, EvalSource, DfsSource, SecretSource, BrokenSecretSource,
      ManySecretsSource, PositionalDefaultsSource, KeywordOnlyDefaultSource,
      AsyncDefaultSource, ShadowSource, MixedSource, StringsSource,
      PositionalOnlySource, PickleSource, LongSecretSource,
      Source("internal", 0, Module(<<>>), {}, {}) }
        \cup {NestSource(d) : d \in 0..MaxNest}

SourcePaths == {<<"a", ".", "p", "y">>, <<"s", "/", "B", ".", "P", "Y">>}

\* StructureAnalyzer(config) with a parameter threshold of 3 in config
ConfiguredStructure ==
    [kind |-> "structure", enabled |-> TRUE, threshold |-> 3,
     exts |-> {PyExt}, ext_error |-> FALSE]

ConcreteAnalyzers ==
    {a \in AnalyzerConfigs : a.kind \in {"security", "structure"}}
        \cup {ConfiguredStructure}

AnalyzersInit ==
    /\ analyzers \in SeqsUpTo(ConcreteAnalyzers, MaxAnalyzers) \ {<<>>}
    /\ files \in {<<[path |-> p, content |-> c]>> : p \in SourcePaths, c \in Sources}
    /\ pc = "runs"
    /\ tasks = <<>>
    /\ calls = <<>>
    /\ all_results = <<>>
    /\ summary = AnalysisSummary
    /\ ops = <<>>

\* await analyzer.analyze_batch(files) on analyzer an, from its first line
\* to its return
RunBatch(an) ==
    LET a == analyzers[an]
        k == NextSupported(a, 1)
    IN /\ pc = "runs"
       /\ Len(tasks) < MaxRuns
       /\ k <= Len(files)
       /\ \E out \in AnalyzeOutcomes(a, files[k]) :
             LET task == RunOn(a, BatchAfter([NewTask(an) EXCEPT !.i = k], files[k], out))
             IN /\ tasks' = Append(tasks, task)
                /\ calls' = Append(calls, <<[file |-> k, out |-> out,
                                            added |-> task.results]>>)
       /\ UNCHANGED <<ops, analyzers, files, pc, all_results, summary>>

AnalyzersNext == \E an \in DOMAIN analyzers : RunBatch(an)

SpecAnalyzers == AnalyzersInit /\ [][AnalyzersNext]_vars

(***************************************************************************)
(* Scoring taken alone: _aggregate_results applied to any list of          *)
(* findings over the paths of a batch.  The batch is the first n records   *)
(* of a fixed list (the score reads only len(files)); the findings range   *)
(* over every severity, a severity outside the enumeration, and            *)
(* confidences 0.0, 0.5 and 1.0.                                           *)
(***************************************************************************)
ScoreFiles ==
    << [path |-> <<"a", ".", "p", "y">>, content |-> EmptySource],
       [path |-> <<"c", ".", "j", "s">>, content |-> EmptySource],
       [path |-> <<"d", ".", "p", "y">>, content |-> EmptySource],
       [path |-> <<"e", ".", "p", "y">>, content |-> EmptySource] >>

ScoreSeverities == Severities \cup {"fatal"}

ScoreConfidences == {0, 5, 10}

ScoreInit ==
    /\ analyzers = <<>>
    /\ files \in {SubSeq(ScoreFiles, 1, n) : n \in 0..MaxFiles}
    /\ pc = "collected"
    /\ tasks = <<>>
    /\ calls = <<>>
    /\ all_results = <<>>
    /\ summary = AnalysisSummary
    /\ ops = <<>>

\* one more finding survives into all_results
FeedFinding ==
    /\ pc = "collected"
    /\ Len(all_results) < MaxResults
    /\ \E k \in 1..Len(files), s \in ScoreSeverities, c \in ScoreConfidences :
          all_results' = Append(all_results,
                                AnalysisResult(files[k].path, 0, s, "general", c))
    /\ UNCHANGED <<ops, analyzers, files, pc, tasks, calls, summary>>

\* return self._aggregate_results(all_results, files)
Aggregate ==
    /\ pc = "collected"
    /\ summary' = AggregateResults(all_results, files)
    /\ pc' = "done"
    /\ UNCHANGED <<ops, analyzers, files, tasks, calls, all_results>>

ScoreNext == FeedFinding \/ Aggregate

SpecScore == ScoreInit /\ [][ScoreNext]_vars

(***************************************************************************)
(* The engine's list of analyzers: add_analyzer and remove_analyzer        *)
(* between construction and the next analyze_files call.  ops is the       *)
(* history of these calls: the operation, its argument, and the list       *)
(* before and after it.                                                    *)
(***************************************************************************)
MaxOps == 3

\* class name -> the class it derives from
Bases ==
    [c \in {"PythonSecurityAnalyzer", "SecurityAnalyzerBase", "StructureAnalyzer",
            "StyleAnalyzerBase", "CustomAnalyzer"} |->
        CASE c = "PythonSecurityAnalyzer" -> "SecurityAnalyzerBase"
          [] c = "StructureAnalyzer" -> "StyleAnalyzerBase"
          [] OTHER -> "CodeAnalyzerBase"]

\* type(analyzer)
ClassOf(a) ==
    CASE a.kind = "security" -> "PythonSecurityAnalyzer"
      [] a.kind = "structure" -> "StructureAnalyzer"
      [] OTHER -> "CustomAnalyzer"

\* the classes from cls up to CodeAnalyzerBase
RECURSIVE Mro(_)
Mro(cls) == IF cls \in DOMAIN Bases THEN <<cls>> \o Mro(Bases[cls]) ELSE <<cls>>

\* variant: only the class of the instance itself counts
IsInstanceExact(a, analyzer_type) == ClassOf(a) = analyzer_type

\* isinstance(analyzer, analyzer_type)
IsInstance(a, analyzer_type) ==
    \E k \in 1..Len(Mro(ClassOf(a))) : Mro(ClassOf(a))[k] = analyzer_type

\* the types remove_analyzer is called with
AnalyzerTypes ==
    {"PythonSecurityAnalyzer", "SecurityAnalyzerBase", "StructureAnalyzer",
     "CodeAnalyzerBase", "ComplexityAnalyzerBase"}

\* the analyzers the list is built from: the two of the package and a
\* disabled one of a class of the caller
ListAnalyzers ==
    {a \in AnalyzerConfigs : a.kind \in {"security", "structure"} \/ ~a.enabled}

ListInit ==
    /\ analyzers \in SeqsUpTo(ListAnalyzers, MaxAnalyzers)
    /\ files = <<[path |-> <<"a", ".", "p", "y">>, content |-> EvalSource]>>
    /\ pc = "idle"
    /\ tasks = <<>>
    /\ calls = <<>>
    /\ all_results = <<>>
    /\ summary = AnalysisSummary
    /\ ops = <<>>

\* self.analyzers.append(analyzer)
AddAnalyzer(a) ==
    /\ pc = "idle"
    /\ Len(ops) < MaxOps
    /\ analyzers' = Append(analyzers, a)
    /\ ops' = Append(ops, [op |-> "add_analyzer", arg |-> a,
                           before |-> analyzers, after |-> analyzers'])
    /\ UNCHANGED <<files, pc, tasks, calls, all_results, summary>>

\* self.analyzers = [a for a in self.analyzers if not isinstance(a, T)]
RemoveAnalyzer(analyzer_type) ==
    /\ pc = "idle"
    /\ Len(ops) < MaxOps
    /\ analyzers' = SelectSeq(analyzers, LAMBDA a : ~IsInstance(a, analyzer_type))
    /\ ops' = Append(ops, [op |-> "remove_analyzer", arg |-> analyzer_type,
                           before |-> analyzers, after |-> analyzers'])
    /\ UNCHANGED <<files, pc, tasks, calls, all_results, summary>>

ListNext ==
    \/ \E a \in ListAnalyzers : AddAnalyzer(a)
    \/ \E T \in AnalyzerTypes : RemoveAnalyzer(T)
    \/ Launch

SpecList == ListInit /\ [][ListNext]_vars

(***************************************************************************)
(* The order in which the tasks of one analyze_files call finish.  A task  *)
(* runs from its first line to its end in one step (the tasks share no     *)
(* state, so only the order of their ends can matter to gather), and the   *)
(* step records the rank of the task among the finished ones.  The event   *)
(* loop runs a coroutine that is ready: the call starts, and the await of  *)
(* gather resumes once gather is done.  Nothing is assumed about the       *)
(* tasks themselves.                                                       *)
(***************************************************************************)
OrderFiles ==
    { [path |-> <<"a", ".", "p", "y">>, content |-> EvalSource],
      [path |-> <<"c", ".", "j", "s">>, content |-> EmptySource] }

OrderInit ==
    /\ analyzers \in SeqsUpTo(AnalyzerConfigs, MaxAnalyzers)
    /\ files \in SeqsUpTo(OrderFiles, MaxFiles)
    /\ pc = "idle"
    /\ tasks = <<>>
    /\ calls = <<>>
    /\ all_results = <<>>
    /\ summary = AnalysisSummary
    /\ ops = <<>>

\* the ways analyze_batch can run from the state of task to its end: the
\* task at its end and the history of its analyze calls
RECURSIVE BatchRuns(_, _, _)
BatchRuns(a, task, log) ==
    IF task.state # "pending" THEN {<<task, log>>}
    ELSE IF a.ext_error /\ task.i <= Len(files)
    THEN {<<[task EXCEPT !.state = "failed"], log>>}
    ELSE LET k == NextSupported(a, task.i) IN
         IF k > Len(files) THEN {<<[task EXCEPT !.state = "done"], log>>}
         ELSE UNION {LET after == BatchAfter([task EXCEPT !.i = k], files[k], out)
                     IN BatchRuns(a, after,
                                  Append(log, [file |-> k, out |-> out,
                                               added |-> SubSeq(after.results,
                                                                Len(task.results) + 1,
                                                                Len(after.results))]))
                     : out \in AnalyzeOutcomes(a, files[k])}

\* task t runs to its end, as the rank-th task to finish
Complete(t) ==
    /\ pc = "gather"
    /\ tasks[t].state = "pending"
    /\ \E run \in BatchRuns(analyzers[tasks[t].an], tasks[t], <<>>) :
          /\ tasks' = [tasks EXCEPT ![t] =
                          [run[1] EXCEPT !.rank =
                              1 + Cardinality({u \in DOMAIN tasks :
                                                  tasks[u].state # "pending"})]]
          /\ calls' = [calls EXCEPT ![t] = run[2]]
    /\ UNCHANGED <<ops, analyzers, files, pc, all_results, summary>>

OrderNext ==
    \/ Launch
    \/ \E t \in DOMAIN tasks : Complete(t)
    \/ Join

SpecOrder ==
    OrderInit /\ [][OrderNext]_vars /\ WF_vars(Launch) /\ WF_vars(Join)

(***************************************************************************)
(* Properties.                                                             *)
(***************************************************************************)
Finished(t) == tasks[t].state \in {"done", "failed", "cancelled"}

\* C1: analyze_files always returns an AnalysisSummary and no error leaves
\* it, however the launched tasks end (result, exception, cancellation).
C1_NoErrorEscapes == pc # "raised"

\* C2: a task that raised is dropped as a whole, nothing stands in for it,
\* and the findings of the other analyzers are exactly their batch outputs,
\* in list order.
C2_FailedTaskDropped ==
    pc = "done" =>
        all_results = Flatten([t \in DOMAIN tasks |->
                                  IF tasks[t].state = "failed" THEN <<>>
                                  ELSE tasks[t].results])

C2_Witness ==
    /\ pc = "done"
    /\ \E t \in DOMAIN tasks : tasks[t].state = "failed"
    /\ \E t \in DOMAIN tasks : tasks[t].state = "done" /\ tasks[t].results # <<>>
    /\ all_results # <<>>

\* C3: for every analyzer and every supported file whose analysis fails
\* internally, the batch output holds exactly one finding for that file
\* with category analysis_error and severity error.
C3_FailureBecomesAnalysisError ==
    \A t \in DOMAIN tasks :
        tasks[t].state = "done" =>
            \A k \in 1..Len(calls[t]) :
                calls[t][k].out.failed =>
                    Cardinality({j \in 1..Len(calls[t][k].added) :
                                    /\ calls[t][k].added[j].category = "analysis_error"
                                    /\ calls[t][k].added[j].severity = "error"
                                    /\ calls[t][k].added[j].file_path =
                                           files[calls[t][k].file].path}) = 1

\* the supported positions of the batch for analyzer a, in input order
RECURSIVE SupportedFrom(_, _)
SupportedFrom(a, k) ==
    IF k > Len(files) THEN <<>>
    ELSE (IF a.enabled /\ \E e \in a.exts : Lower(e) = Lower(PathSuffix(files[k].path))
          THEN <<k>> ELSE <<>>) \o SupportedFrom(a, k + 1)

\* what one analyze call leaves in the batch output
Expected(call) ==
    IF call.out.kind = "raise"
    THEN <<[file_path |-> files[call.file].path, line |-> 0, severity |-> "error",
            category |-> "analysis_error", confidence |-> 5, message |-> <<"", "">>,
            code_snippet |-> [kind |-> "None"]]>>
    ELSE call.out.findings

\* C4: an exception raised by analyze for one file does not stop the batch:
\* analyze is invoked for every supported file, and the returned list is the
\* findings of all of them in order, with one error finding for the file
\* that raised.
C4_BatchContinuesAfterException ==
    \A t \in DOMAIN tasks :
        /\ (calls[t] # <<>> /\ calls[t][Len(calls[t])].out.kind = "raise") =>
               /\ tasks[t].state \in {"pending", "done"}
               /\ tasks[t].i > calls[t][Len(calls[t])].file
        /\ tasks[t].state = "done" =>
               /\ [k \in 1..Len(calls[t]) |-> calls[t][k].file]
                      = SupportedFrom(analyzers[tasks[t].an], 1)
               /\ tasks[t].results
                      = Flatten([k \in 1..Len(calls[t]) |-> Expected(calls[t][k])])

C4_Witness ==
    \E t \in DOMAIN tasks :
        /\ tasks[t].state = "done"
        /\ Len(calls[t]) = 2
        /\ calls[t][1].out.kind = "raise"
        /\ calls[t][2].out.kind = "return"
        /\ calls[t][2].out.findings # <<>>
        /\ Len(tasks[t].results) = 2

\* C5: aggregation starts only after every launched task has completed or
\* failed: once analyze_files is past its await, no task is pending.
C5_AggregationAfterAllTasks ==
    pc \in {"done", "raised"} => \A t \in DOMAIN tasks : Finished(t)

C5_Witness ==
    /\ pc = "done"
    /\ Len(tasks) >= 2
    /\ \E t \in DOMAIN tasks : tasks[t].state = "failed"
    /\ \E t \in DOMAIN tasks : tasks[t].state = "done" /\ calls[t] # <<>>

\* C6: analyze is invoked on a file only if the analyzer is enabled and the
\* file's extension, compared case-insensitively, is in its declared set;
\* every other (analyzer, file) pair contributes no finding.
C6_AnalyzeOnlyEnabledSupported ==
    \A t \in DOMAIN tasks :
        LET a == analyzers[tasks[t].an]
            ok(i) == /\ a.enabled
                     /\ \E e \in a.exts : Lower(e) = Lower(PathSuffix(files[i].path))
        IN /\ \A k \in 1..Len(calls[t]) : ok(calls[t][k].file)
           /\ \A j \in 1..Len(tasks[t].results) :
                 \E i \in 1..Len(files) :
                    ok(i) /\ files[i].path = tasks[t].results[j].file_path

C6_Witness ==
    \E t \in DOMAIN tasks :
        /\ tasks[t].state = "done"
        /\ \E k \in 1..Len(calls[t]) :
              PathSuffix(files[calls[t][k].file].path) # Lower(PathSuffix(files[calls[t][k].file].path))
        /\ \E i \in 1..Len(files) : \A k \in 1..Len(calls[t]) : calls[t][k].file # i

\* C7: the score of every returned Summary lies in 0.0 .. 1.0.
C7_ScoreInRange ==
    pc = "done" => summary.score >= 0 /\ summary.score <= 1000

C7_Witness ==
    /\ pc = "done"
    /\ Len(files) = 1
    /\ Len(all_results) = 2
    /\ \A k \in 1..2 : all_results[k].severity = "critical" /\ all_results[k].confidence = 10
    /\ summary.score = 0

\* the formula of the claim: weight x confidence summed per file, capped at
\* 1.0 per file, in hundredths
StatedWeight(severity) ==
    CASE severity = "info" -> 1
      [] severity = "warning" -> 3
      [] severity = "error" -> 7
      [] severity = "critical" -> 10
      [] OTHER -> 5

StatedFilePenalty(results, path) ==
    LET mine == {k \in 1..Len(results) : results[k].file_path = path}
        sum == SumOver(mine, [k \in mine |->
                                 StatedWeight(results[k].severity) * results[k].confidence])
    IN IF sum > 100 THEN 100 ELSE sum

StatedScore(results, n) ==
    LET paths == {results[k].file_path : k \in 1..Len(results)}
        total == SumOver(paths, [p \in paths |-> StatedFilePenalty(results, p)])
        num == IF 1000 * n - 10 * total < 0 THEN 0 ELSE 1000 * n - 10 * total
    IN RoundHalfEven(num, n)

\* C8: for a non-empty batch with at least one finding the score is
\* max(0, 1 - total_penalty / file_count) rounded to 3 decimals, with
\* total_penalty the sum over files of min(1.0, sum of weight x confidence),
\* for every confidence from 0.0 to 1.0.
C8_ScoreFormula ==
    (pc = "done" /\ files # <<>> /\ all_results # <<>>) =>
        summary.score = StatedScore(all_results, Len(files))

\* C9: the grade is the step function of the score: EXCELLENT from 0.9,
\* GOOD from 0.7, NEEDS_IMPROVEMENT from 0.5, else POOR, and nothing else.
C9_GradeFromScore ==
    pc = "done" =>
        summary.grade = (IF summary.score >= 900 THEN "EXCELLENT"
                         ELSE IF summary.score >= 700 THEN "GOOD"
                         ELSE IF summary.score >= 500 THEN "NEEDS_IMPROVEMENT"
                         ELSE "POOR")

C9_Witness ==
    /\ pc = "done"
    /\ all_results # <<>>
    /\ summary.score = 700
    /\ summary.grade = "GOOD"

\* C10: with no files, or with no surviving finding (no analyzers, all
\* disabled, all failed, nothing found), score = 1.0 and grade = EXCELLENT;
\* for the empty batch also total_files = 0 and total_issues = 0.
C10_TriviallyPerfect ==
    pc = "done" =>
        /\ (files = <<>> \/ all_results = <<>>) =>
               summary.score = 1000 /\ summary.grade = "EXCELLENT"
        /\ files = <<>> => summary.total_files = 0 /\ summary.total_issues = 0

C10_Witness ==
    /\ pc = "done"
    /\ files # <<>>
    /\ tasks # <<>>
    /\ \A t \in DOMAIN tasks : tasks[t].state = "failed"
    /\ summary.score = 1000
    /\ summary.total_files = Len(files)

\* the entry of a counting map, 0 for a key the map does not hold
CountOf(counts, key) == IF key \in DOMAIN counts THEN counts[key] ELSE 0

\* C11: in every returned Summary total_issues is the number of surviving
\* findings, issues_by_severity[s] and issues_by_category[c] are the numbers
\* of findings with that severity and that category, and the counts of each
\* map sum to total_issues.
C11_CountsMatchFindings ==
    pc = "done" =>
        /\ summary.total_issues = Len(all_results)
        /\ \A s \in Severities \cup DOMAIN summary.issues_by_severity :
               CountOf(summary.issues_by_severity, s)
                   = Cardinality({k \in 1..Len(all_results) : all_results[k].severity = s})
        /\ \A c \in {"security", "structure", "general", "analysis_error"}
                      \cup DOMAIN summary.issues_by_category :
               CountOf(summary.issues_by_category, c)
                   = Cardinality({k \in 1..Len(all_results) : all_results[k].category = c})
        /\ SumOver(DOMAIN summary.issues_by_severity, summary.issues_by_severity)
               = summary.total_issues
        /\ SumOver(DOMAIN summary.issues_by_category, summary.issues_by_category)
               = summary.total_issues

C11_Witness ==
    /\ pc = "done"
    /\ summary.total_issues = 2
    /\ \E s \in DOMAIN summary.issues_by_severity : summary.issues_by_severity[s] = 2
    /\ Cardinality(DOMAIN summary.issues_by_category) = 2

(***************************************************************************)
(* Properties of the concrete analyzers, over the analyze calls recorded   *)
(* in calls.                                                               *)
(***************************************************************************)
\* the analyze calls made so far, as <<task, position in its history>>
Calls == UNION {{<<t, k>> : k \in 1..Len(calls[t])} : t \in DOMAIN calls}

CallKind(c) == analyzers[tasks[c[1]].an].kind

CallFile(c) == files[calls[c[1]][c[2]].file]

CallFindings(c) == calls[c[1]][c[2]].out.findings

\* the findings whose message has the given text
WithText(fs, text) == SelectSeq(fs, LAMBDA f : f.message[1] = text)

\* every node of a tree
RECURSIVE Nodes(_)
Nodes(node) == {node} \cup UNION {Nodes(node.kids[k]) : k \in 1..Len(node.kids)}

\* the line of an offset: 1 + the number of line breaks before it
StatedLine(content, start) == 1 + Cardinality({n \in content.newlines : n < start})

\* C12: when a file fails to parse, SecurityAnalyzer emits exactly one
\* syntax finding, of severity warning, skips the tree checks and still
\* runs the raw-text pattern checks: every secret-pattern match of the
\* unparseable text has its critical finding.
C12_PatternsRunOnParseFailure ==
    \A c \in Calls :
        (CallKind(c) = "security" /\ CallFile(c).content.fault = "syntax") =>
            LET fs == CallFindings(c)
                syntax == WithText(fs, "Syntax error in Python code")
            IN /\ Len(syntax) = 1
               /\ syntax[1].severity = "warning"
               /\ \A m \in CallFile(c).content.matches :
                     \E j \in 1..Len(fs) :
                        /\ fs[j].severity = "critical"
                        /\ fs[j].category = "security"
                        /\ fs[j].line = StatedLine(CallFile(c).content, m.start)

\* C13: when a file fails to parse, StructureAnalyzer returns exactly one
\* finding, of severity error, and nothing from any other check.
C13_StructureStopsAtSyntaxError ==
    \A c \in Calls :
        (CallKind(c) = "structure" /\ CallFile(c).content.fault = "syntax") =>
            /\ calls[c[1]][c[2]].out.kind = "return"
            /\ Len(CallFindings(c)) = 1
            /\ CallFindings(c)[1].severity = "error"
            /\ CallFindings(c)[1].line = CallFile(c).content.errline
            /\ tasks[c[1]].results = CallFindings(c)

C13_Witness ==
    \E c \in Calls :
        /\ CallKind(c) = "structure"
        /\ CallFile(c).content = BrokenSecretSource
        /\ Len(CallFindings(c)) = 1
        /\ CallFindings(c)[1].line = 2

\* the calls of eval or exec by name in a tree
DynamicCalls(tree) ==
    {n \in Nodes(tree) :
        /\ n.type = "Call"
        /\ \E k \in 1..Len(n.kids) :
              /\ n.kids[k].role = "func"
              /\ n.kids[k].type = "Name"
              /\ n.kids[k].name \in {"eval", "exec"}}

\* C14: for every call of eval or exec at line N of a parseable file,
\* SecurityAnalyzer emits a critical finding of category security at line N
\* and StructureAnalyzer emits an error finding of another category at
\* line N.
C14_DynamicEvalReportedByBoth ==
    \A c \in Calls :
        CallFile(c).content.fault = "none" =>
            \A n \in DynamicCalls(CallFile(c).content.tree) :
                \E j \in 1..Len(CallFindings(c)) :
                    LET f == CallFindings(c)[j] IN
                    /\ f.line = n.line
                    /\ CallKind(c) = "security" =>
                           f.severity = "critical" /\ f.category = "security"
                    /\ CallKind(c) = "structure" =>
                           f.severity = "error" /\ f.category # "security"

C14_Witness ==
    \E c, d \in Calls :
        /\ CallKind(c) = "security"
        /\ CallKind(d) = "structure"
        /\ CallFile(c).content = DfsSource
        /\ \E i, j \in 1..2 :
              /\ CallFindings(c)[i].line = 2 /\ CallFindings(c)[i].severity = "critical"
              /\ CallFindings(d)[j].line = 2 /\ CallFindings(d)[j].severity = "error"

\* what the claim expects of the pattern bank: for each rule in the order
\* of the bank, one <<message, line>> per match, left to right
StatedPatternFindings(content) ==
    Flatten([r \in 1..Len(SensitivePatterns) |->
        LET starts == Ascending({m.start : m \in {x \in content.matches : x.rule = r}})
        IN [k \in 1..Len(starts) |->
               <<SensitivePatterns[r], StatedLine(content, starts[k])>>]])

\* C15: every match of a rule of the secret-pattern bank in the raw content
\* yields one finding, critical, of category security, at line 1 + the
\* number of line breaks before the match; one finding per match, the rules
\* in the order of the bank.
C15_OneFindingPerPatternMatch ==
    \A c \in Calls :
        CallKind(c) = "security" =>
            LET found == SelectSeq(CallFindings(c),
                                   LAMBDA f : \E r \in 1..Len(SensitivePatterns) :
                                                 f.message[1] = SensitivePatterns[r])
            IN /\ [j \in 1..Len(found) |-> <<found[j].message[1], found[j].line>>]
                      = StatedPatternFindings(CallFile(c).content)
               /\ \A j \in 1..Len(found) :
                     found[j].severity = "critical" /\ found[j].category = "security"

\* the number of nodes on the longest path from a node down to a leaf
RECURSIVE TreeHeight(_)
TreeHeight(node) ==
    IF node.kids = <<>> THEN 1
    ELSE LET hs == {TreeHeight(node.kids[k]) : k \in 1..Len(node.kids)}
         IN 1 + CHOOSE h \in hs : \A g \in hs : g <= h

\* C16: StructureAnalyzer emits exactly one high-nesting-depth warning, with
\* no line, for a parseable file whose deepest nesting is 9 or more, and
\* none when it is 8 or less.
C16_NestingWarningAboveEight ==
    \A c \in Calls :
        (CallKind(c) = "structure" /\ CallFile(c).content.fault = "none") =>
            LET deep == WithText(CallFindings(c), "High nesting depth")
            IN IF TreeHeight(CallFile(c).content.tree) >= 9
               THEN /\ Len(deep) = 1
                    /\ deep[1].severity = "warning"
                    /\ deep[1].line = 0
               ELSE deep = <<>>

C16_Witness ==
    \E c, d \in Calls :
        /\ CallKind(c) = "structure"
        /\ TreeHeight(CallFile(c).content.tree) = 9
        /\ Len(WithText(CallFindings(c), "High nesting depth")) = 1
        /\ CallKind(d) = "structure"

\* the function definitions of a tree
FunctionDefinitions(tree) ==
    {n \in Nodes(tree) : n.type \in {"FunctionDef", "AsyncFunctionDef"}}

\* the default values of a definition that are list, mapping or set
\* literals, by position among the children of its arguments
MutableDefaults(fn) ==
    LET args == CHOOSE a \in {fn.kids[k] : k \in 1..Len(fn.kids)} : a.type = "arguments"
    IN {k \in 1..Len(args.kids) :
           /\ args.kids[k].role \in {"defaults", "kw_defaults"}
           /\ args.kids[k].type \in {"List", "Dict", "Set"}}

\* C17: for every function definition of a parseable file, StructureAnalyzer
\* emits one mutable-default-argument warning per default value that is a
\* list, mapping or set literal, at the line of the definition, and none
\* for other defaults.
C17_OneWarningPerMutableDefault ==
    \A c \in Calls :
        (CallKind(c) = "structure" /\ CallFile(c).content.fault = "none") =>
            \A fn \in FunctionDefinitions(CallFile(c).content.tree) :
                LET mine == SelectSeq(CallFindings(c),
                                      LAMBDA f : /\ f.message = <<"uses a mutable default argument",
                                                                  fn.name>>
                                                 /\ f.line = fn.line)
                IN /\ Len(mine) = Cardinality(MutableDefaults(fn))
                   /\ \A j \in 1..Len(mine) : mine[j].severity = "warning"

\* C18: running the same analyzer twice on the same path and content gives
\* the same list of findings, in the same order.
C18_SameInputSameFindings ==
    \A c, d \in Calls :
        (CallKind(c) = CallKind(d) /\ CallFile(c) = CallFile(d)) =>
            CallFindings(c) = CallFindings(d)

\* C19: every finding of SecurityAnalyzer, of StructureAnalyzer and of the
\* batch helper has a confidence from 0.0 to 1.0 and a severity among info,
\* warning, error, critical.
C19_ConfidenceAndSeverityInRange ==
    \A t \in DOMAIN tasks :
        analyzers[tasks[t].an].kind \in {"security", "structure"} =>
            \A j \in 1..Len(tasks[t].results) :
                /\ tasks[t].results[j].confidence >= 0
                /\ tasks[t].results[j].confidence <= 10
                /\ tasks[t].results[j].severity \in {"info", "warning", "error", "critical"}

C19_Witness ==
    \E t, u \in DOMAIN tasks :
        /\ analyzers[tasks[t].an].kind = "structure"
        /\ Len(tasks[t].results) = 1
        /\ tasks[t].results[1].category = "analysis_error"
        /\ analyzers[tasks[u].an].kind = "security"
        /\ Len(tasks[u].results) = 1
        /\ tasks[u].results[1].severity = "error"

\* a is b with some elements left out
RECURSIVE IsSubsequence(_, _)
IsSubsequence(a, b) ==
    IF a = <<>> THEN TRUE
    ELSE IF b = <<>> THEN FALSE
    ELSE IF Head(a) = Head(b) THEN IsSubsequence(Tail(a), Tail(b))
    ELSE IsSubsequence(a, Tail(b))

\* C20: in the engine's list the findings of one analyzer keep the order of
\* that analyzer's batch output, which lists the files in input order and,
\* within a file, the findings in the order analyze returned them.
C20_AnalyzerOrderKept ==
    pc = "done" =>
        \A t \in DOMAIN tasks :
            tasks[t].state = "done" =>
                /\ IsSubsequence(tasks[t].results, all_results)
                /\ \A k \in 1..Len(calls[t]) - 1 :
                      calls[t][k].file < calls[t][k + 1].file
                /\ tasks[t].results
                      = Flatten([k \in 1..Len(calls[t]) |->
                                    IF calls[t][k].out.kind = "return"
                                    THEN calls[t][k].out.findings
                                    ELSE calls[t][k].added])

C20_Witness ==
    /\ pc = "done"
    /\ Len(tasks) = 2
    /\ \A t \in DOMAIN tasks :
          /\ tasks[t].state = "done"
          /\ Len(calls[t]) = 2
          /\ Len(tasks[t].results) = 2
          /\ tasks[t].results[1].file_path # tasks[t].results[2].file_path
    /\ tasks[1].results # tasks[2].results
    /\ Len(all_results) = 4

\* C21: within one analyze_files call nothing is tried again: every enabled
\* analyzer has exactly one batch task (a disabled one none), and a task
\* invokes analyze at most once per file record of the input, also after a
\* parse failure, an exception for a file or a failed task.
C21_NoRetry ==
    pc # "idle" =>
        /\ \A i \in DOMAIN analyzers :
               Cardinality({t \in DOMAIN tasks : tasks[t].an = i})
                   = (IF analyzers[i].enabled THEN 1 ELSE 0)
        /\ \A t \in DOMAIN tasks :
               \A j, k \in 1..Len(calls[t]) :
                   j # k => calls[t][j].file # calls[t][k].file

C21_Witness ==
    /\ pc = "done"
    /\ \E t \in DOMAIN tasks : tasks[t].state = "failed"
    /\ \E t \in DOMAIN tasks :
          /\ Len(calls[t]) = 2
          /\ calls[t][1].out.kind = "raise"
          /\ files[calls[t][2].file].content.fault = "syntax"

\* the parameters of a definition: positional, keyword-only, *args, **kwargs
StatedParameterCount(fn) ==
    LET args == CHOOSE a \in {fn.kids[k] : k \in 1..Len(fn.kids)} : a.type = "arguments"
    IN Cardinality({k \in 1..Len(args.kids) : args.kids[k].type = "arg"})

\* the threshold of the analyzer's configuration, 6 when it gives none
StatedThreshold(a) == IF a.threshold = 0 THEN 6 ELSE a.threshold

\* C22: for every function definition StructureAnalyzer emits a
\* many-parameters warning iff the number of its parameters (positional,
\* keyword-only, variadic positional, variadic keyword) is greater than the
\* threshold of the analyzer's configuration, 6 when none is configured.
C22_ManyParametersAboveThreshold ==
    \A c \in Calls :
        (CallKind(c) = "structure" /\ CallFile(c).content.fault = "none") =>
            \A fn \in FunctionDefinitions(CallFile(c).content.tree) :
                LET mine == SelectSeq(CallFindings(c),
                                      LAMBDA f : /\ f.message = <<"has many parameters", fn.name>>
                                                 /\ f.line = fn.line)
                    many == StatedParameterCount(fn)
                                > StatedThreshold(analyzers[tasks[c[1]].an])
                IN /\ Len(mine) = (IF many THEN 1 ELSE 0)
                   /\ \A j \in 1..Len(mine) : mine[j].severity = "warning"

\* names of the builtins module that the catalogue texts can assign
LanguageBuiltins == {"list", "id", "type", "print", "input", "dict", "len"}

\* the identifiers a text assigns, in any scope
StatedAssignedNames(tree) ==
    UNION {{n.kids[k].name : k \in {j \in 1..Len(n.kids) :
                                        /\ n.kids[j].type = "Name"
                                        /\ n.kids[j].role \in {"targets", "target"}}}
           : n \in {m \in Nodes(tree) : m.type \in {"Assign", "AnnAssign"}}}

\* C23: for a parseable file StructureAnalyzer emits exactly one warning
\* without line for each distinct assigned identifier that is a builtin of
\* the language (list, id, type, ...), and none for any other identifier.
C23_OneWarningPerShadowedBuiltin ==
    \A c \in Calls :
        (CallKind(c) = "structure" /\ CallFile(c).content.fault = "none") =>
            LET shadows == WithText(CallFindings(c), "shadows a Python builtin.")
                assigned == StatedAssignedNames(CallFile(c).content.tree)
            IN /\ \A n \in assigned \cap LanguageBuiltins :
                      Len(SelectSeq(shadows, LAMBDA f : f.message[2] = n)) = 1
               /\ \A k \in 1..Len(shadows) :
                      /\ shadows[k].message[2] \in assigned \cap LanguageBuiltins
                      /\ shadows[k].line = 0
                      /\ shadows[k].severity = "warning"

\* the str constants of a text
StringLiterals(tree) ==
    {n \in Nodes(tree) : n.type = "Constant" /\ n.name # "number"}

\* the value holds dot dot slash or dot dot backslash
HoldsTraversal(v) ==
    \E i \in 1..(Len(v) - 2) :
        v[i] = "." /\ v[i + 1] = "." /\ v[i + 2] \in {"/", "\\"}

\* C24: every string literal of a parseable file that contains ../ or ..\
\* gets a path traversal finding of SecurityAnalyzer, severity warning, at
\* the line of the literal.
C24_TraversalLiteralReported ==
    \A c \in Calls :
        (CallKind(c) = "security" /\ CallFile(c).content.fault = "none") =>
            \A n \in StringLiterals(CallFile(c).content.tree) :
                HoldsTraversal(StringValue(n.name)) =>
                    \E k \in 1..Len(CallFindings(c)) :
                        /\ CallFindings(c)[k].message[1]
                               = "Potential path traversal vulnerability"
                        /\ CallFindings(c)[k].line = n.line
                        /\ CallFindings(c)[k].severity = "warning"

\* the calls pickle.loads(...) and cPickle.loads(...) of a text
PickleLoadsCalls(tree) ==
    {n \in Nodes(tree) :
        /\ n.type = "Call"
        /\ n.kids[1].type = "Attribute"
        /\ n.kids[1].name = "loads"
        /\ n.kids[1].kids[1].type = "Name"
        /\ n.kids[1].kids[1].name \in {"pickle", "cPickle"}}

\* C25: every call pickle.loads(data) or cPickle.loads(data) of a
\* parseable file gets a finding of SecurityAnalyzer with severity warning
\* at the line of the call.
C25_PickleLoadsReported ==
    \A c \in Calls :
        (CallKind(c) = "security" /\ CallFile(c).content.fault = "none") =>
            \A n \in PickleLoadsCalls(CallFile(c).content.tree) :
                \E k \in 1..Len(CallFindings(c)) :
                    /\ CallFindings(c)[k].severity = "warning"
                    /\ CallFindings(c)[k].line = n.line

\* C26: analyze_files waits for all of its tasks and does not hang: once
\* every launched task has completed, failed or been cancelled, the call
\* eventually returns its summary.
C26_ReturnsOnceTasksEnd ==
    (pc = "gather" /\ \A t \in DOMAIN tasks : Finished(t)) ~> (pc = "done")

\* cls is analyzer_type or derives from it, by the class declarations
RECURSIVE DerivesFrom(_, _)
DerivesFrom(cls, analyzer_type) ==
    \/ cls = analyzer_type
    \/ cls \in DOMAIN Bases /\ DerivesFrom(Bases[cls], analyzer_type)

\* list b is list a without the elements at the positions in gone
IsListWithout(a, gone, b) ==
    LET kept == {k \in 1..Len(a) : k \notin gone}
    IN /\ Len(b) = Cardinality(kept)
       /\ \A k \in kept : b[Cardinality({j \in kept : j <= k})] = a[k]

\* what one call did to the list is what the call is stated to do
StatedEffect(o) ==
    IF o.op = "add_analyzer"
    THEN /\ Len(o.after) = Len(o.before) + 1
         /\ SubSeq(o.after, 1, Len(o.before)) = o.before
         /\ o.after[Len(o.after)] = o.arg
    ELSE IsListWithout(o.before,
                       {k \in 1..Len(o.before) :
                           DerivesFrom(ClassOf(o.before[k]), o.arg)},
                       o.after)

\* C27: after any sequence of add_analyzer and remove_analyzer calls the
\* list is what the calls give one after the other (add_analyzer appends at
\* the end; remove_analyzer(T) deletes exactly the instances of T,
\* subclasses included, and keeps the order of the rest), and the next
\* analyze_files launches one task for each enabled analyzer of that list
\* and no other.
C27_ListFollowsCalls ==
    /\ \A k \in 1..Len(ops) :
          /\ StatedEffect(ops[k])
          /\ k > 1 => ops[k].before = ops[k - 1].after
    /\ ops # <<>> => analyzers = ops[Len(ops)].after
    /\ pc # "idle" =>
          /\ \A i \in DOMAIN analyzers :
                 analyzers[i].enabled <=> \E t \in DOMAIN tasks : tasks[t].an = i
          /\ \A t \in DOMAIN tasks : tasks[t].an \in DOMAIN analyzers
          /\ \A t, u \in DOMAIN tasks : tasks[t].an = tasks[u].an => t = u

C27_Witness ==
    /\ pc = "gather"
    /\ Len(tasks) = 1
    /\ Len(analyzers) = 2
    /\ \E k \in 1..Len(ops) :
          /\ ops[k].op = "remove_analyzer"
          /\ ops[k].arg = "SecurityAnalyzerBase"
          /\ Len(ops[k].before) = 3
          /\ Len(ops[k].after) = 2
          /\ ops[k].before[2].kind = "security"
    /\ \E k \in 1..Len(ops) : ops[k].op = "add_analyzer"

\* the findings of the secret-pattern bank
PatternFindings(fs) ==
    SelectSeq(fs, LAMBDA f : \E r \in 1..Len(SensitivePatterns) :
                                f.message[1] = SensitivePatterns[r])

\* the snippet is the whole matched text m and nothing else
IsWholeMatch(snippet, m) ==
    /\ snippet.kind = "match"
    /\ snippet.start = m.start
    /\ snippet.chars = m.len
    /\ snippet.dots = 0

\* the snippet is a beginning of m of at most 100 characters, then an
\* ellipsis
IsCutMatch(snippet, m) ==
    /\ snippet.kind = "match"
    /\ snippet.start = m.start
    /\ snippet.chars <= 100
    /\ snippet.chars < m.len
    /\ snippet.dots > 0

\* C28: the code_snippet of every finding of the secret-pattern bank is the
\* matched text when that is at most 100 characters long, and otherwise
\* the matched text cut to at most 100 characters with an ellipsis marker
\* after it.
C28_SnippetCutAtHundred ==
    \A c \in Calls :
        CallKind(c) = "security" =>
            LET found == PatternFindings(CallFindings(c))
                ms == CallFile(c).content.matches
            IN /\ \A j \in 1..Len(found) :
                      \E m \in ms :
                          /\ found[j].message[1] = SensitivePatterns[m.rule]
                          /\ found[j].line = StatedLine(CallFile(c).content, m.start)
                          /\ IF m.len <= 100
                             THEN IsWholeMatch(found[j].code_snippet, m)
                             ELSE IsCutMatch(found[j].code_snippet, m)
               /\ CallFile(c).content.fault = "none" =>
                      \A m \in ms : \E j \in 1..Len(found) :
                          found[j].code_snippet.start = m.start

C28_Witness ==
    \E c \in Calls :
        /\ CallKind(c) = "security"
        /\ \E j, k \in 1..Len(CallFindings(c)) :
              /\ CallFindings(c)[j].code_snippet
                     = [kind |-> "match", start |-> 0, chars |-> 100, dots |-> 0]
              /\ CallFindings(c)[k].code_snippet
                     = [kind |-> "match", start |-> 101, chars |-> 100, dots |-> 3]

\* the findings of task t that reach the list of the engine
Surviving(t) == IF tasks[t].state = "done" THEN tasks[t].results ELSE <<>>

\* the number of surviving findings of the tasks launched before task t
SurvivingBefore(t) ==
    SumOver(1..(t - 1), [u \in 1..(t - 1) |-> Len(Surviving(u))])

\* C29: the engine's list follows the order of its analyzers and not the
\* order in which the tasks finish: the surviving findings of an analyzer
\* stand, as one block, after those of every enabled analyzer before it in
\* the list, whichever task finished first.
C29_ListOrderNotCompletionOrder ==
    pc = "done" =>
        /\ \A t \in DOMAIN tasks :
              SubSeq(all_results, SurvivingBefore(t) + 1,
                     SurvivingBefore(t) + Len(Surviving(t))) = Surviving(t)
        /\ \A t, u \in DOMAIN tasks : t < u => tasks[t].an < tasks[u].an

C29_Witness ==
    /\ pc = "done"
    /\ Len(tasks) = 2
    /\ tasks[2].rank = 1
    /\ tasks[1].rank = 2
    /\ Surviving(1) # <<>>
    /\ Surviving(2) # <<>>
    /\ Surviving(1)[1] # Surviving(2)[1]

\* the distinct paths that have a finding in the engine's list
PathsWithFindings == {all_results[k].file_path : k \in 1..Len(all_results)}

\* the list without the findings of path p
WithoutPath(p) == SelectSeq(all_results, LAMBDA r : r.file_path # p)

\* C30: for a batch of n >= 1 file records the score is at least 1 - d/n,
\* up to the rounding to three decimals, where d is the number of distinct
\* paths with a finding; every finding carries the path of an input record,
\* so d <= n, and the findings of one file lower the score by at most 1/n.
\* The score is in thousandths.
C30_ScoreFloorByFilesWithFindings ==
    (pc = "done" /\ Len(files) >= 1) =>
        LET n == Len(files)
            d == Cardinality(PathsWithFindings)
        IN /\ PathsWithFindings \subseteq {files[i].path : i \in 1..n}
           /\ d <= n
           /\ 2 * n * summary.score >= 2000 * (n - d) - n
           /\ \A p \in PathsWithFindings :
                 n * (CalculateScore(WithoutPath(p), files) - summary.score)
                     <= 1000 + n

C30_Witness ==
    /\ pc = "done"
    /\ Len(files) = 2
    /\ Cardinality(PathsWithFindings) = 1
    /\ Cardinality({k \in 1..Len(all_results) :
                       all_results[k].severity = "critical"}) >= 2
    /\ \E k \in 1..Len(all_results) : all_results[k].severity = "error"
    /\ summary.score = 500

====
